---------------------------- MODULE Spec2Model ----------------------------
(***************************************************************************)
(* Model of freezer_monitor.py (version 0.3.2).                            *)
(*                                                                         *)
(* monitor() polls a GPIO pin and starts one daemon thread running         *)
(* handle_event(status) per observed change.  handle_event resolves the    *)
(* host address, parses the CSV directory (handle_csv_error on failure)    *)
(* and calls send_mail for every row whose IP equals the host address.     *)
(*                                                                         *)
(* Reading notes.                                                          *)
(*  - Line 277 has an unbalanced "(" ; it is read as                       *)
(*        reply_to = (info[i]['Reply-To Email'])                           *)
(*    which is the only reading under which the module can be imported.    *)
(*  - Names that are bound nowhere (msg_type at line 154, string at line   *)
(*    216, recipeints at line 220) raise NameError when evaluated; the     *)
(*    model derives this from BoundNames.                                  *)
(*  - An exception that leaves handle_event unwinds the whole thread: the  *)
(*    only callers are Thread.run and line 226, which is inside an except  *)
(*    clause, itself called from line 269 inside an except clause.         *)
(***************************************************************************)
EXTENDS Integers, Sequences, FiniteSets, TLC

(* ------------------------------ bounds -------------------------------- *)
\* number of GPIO reads explored (the initial read included)
MaxSamples == 3
\* threads whose execution is explored (the others are started by the
\* monitor but never scheduled)
MaxRunning == 1
\* CSV load failures explored, all threads together
MaxLoadFailures == 1
\* addresses listed in one Email or Backup Email cell
MaxAddresses == 2

(* --------------------------- program constants ------------------------- *)
LOW == 0
HIGH == 1
Levels == {LOW, HIGH}

\* the address ni.ifaddresses('eth0')[2][0]['addr'] yields on this host
HostIP == "10.12.1.2"
OtherIP == "10.12.1.1"

CSV_ERROR_ADDRESSES ==
    [from |-> "freezer_monitor@example.edu",
     to |-> <<"it-admins@example.edu">>,
     reply_to |-> "it-admins@example.edu"]

\* names bound at module level, as builtins, or as locals of the function
\* that uses them (imports of lines 35-51, assignments of lines 54-64,
\* the def statements, parameters and assigned locals)
BoundNames ==
    {"sys", "time", "argparse", "logging", "sleep", "pprint", "Thread",
     "datetime", "GPIO", "csv", "ni", "smtplib", "MIMEText",
     "CSV_PATH", "CSV_ERROR_ADDRESSES", "SMTP_SERVER", "my_logger",
     "handler", "std_handler",
     "parse_info", "send_mail", "handle_csv_error", "handle_event",
     "gpio_setup", "monitor", "main",
     "str", "type", "len", "range", "open",
     "status", "recipients", "sender", "reply_to", "backup", "location",
     "event_time", "msg", "s", "ip", "info", "i", "department",
     "parsed_csv", "a", "b", "event_thread", "PIN"}

NameDefined(n) == n \in BoundNames

(* ------------------------ the CSV directory ---------------------------- *)
\* A cell is a tuple of characters; an address or a location counts as one
\* character, "," and " " are themselves.
Str(x) == <<x>>

Header7 ==
    <<"IP", "Location", "Email", "Backup Email", "Reply-To Email",
      "From Email", "Department">>
\* exactly the six columns the module docstring (lines 13-14) requires
Header6 ==
    <<"IP", "Location", "Email", "Backup Email", "Reply-To Email",
      "From Email">>

RowSchmoe ==
    <<Str(HostIP), Str("BLDG 456"),
      <<"schmoe@x.edu", ",", " ", "list@x.edu">>, Str("it@x.edu"),
      Str("help@x.edu"), Str("fm@x.edu"), Str("Biochemistry")>>
RowSecond ==
    <<Str(HostIP), Str("BLDG 789"),
      Str("lab2@x.edu"), Str("it2@x.edu"),
      Str("help@x.edu"), Str("fm@x.edu"), Str("Chemistry")>>
RowOther ==
    <<Str(OtherIP), Str("BLDG 345"),
      Str("chem@x.edu"), Str("it@x.edu"),
      Str("help@x.edu"), Str("fm@x.edu"), Str("Chemistry")>>

\* what open(CSV_PATH) may find when a handler reads it: no file, an empty
\* file, well-formed files with one, two and no matching row, a file with
\* the six documented columns only, a row longer than the header, and a
\* blank line (csv.reader yields an empty row for it)
File(lines) == [exists |-> TRUE, lines |-> lines]
CsvFiles ==
    {[exists |-> FALSE, lines |-> <<>>],
     File(<<>>),
     File(<<Header7, RowOther, RowSchmoe>>),
     File(<<Header7, RowSchmoe, RowOther, RowSecond>>),
     File(<<Header7, RowOther>>),
     File(<<Header6, SubSeq(RowSchmoe, 1, 6)>>),
     File(<<Header6, RowSchmoe>>),
     File(<<Header7, <<>>, RowSchmoe>>)}

\* lines 91-94: entry[header[i]] = row[i] for i in range(len(row));
\* a repeated header keeps the last cell
Entry(header, row) ==
    [k \in {header[j] : j \in 1..Len(row)} |->
        row[CHOOSE j \in 1..Len(row) :
               /\ header[j] = k
               /\ \A m \in 1..Len(row) : header[m] = k => m <= j]]

\* lines 84-95.  open() raises IOError on a missing file, rows.pop(0)
\* raises IndexError on an empty one, header[i] raises IndexError on a row
\* longer than the header.
parse_info(file) ==
    IF ~file.exists THEN [ok |-> FALSE, exc |-> "IOError"]
    ELSE IF Len(file.lines) = 0 THEN [ok |-> FALSE, exc |-> "IndexError"]
    ELSE LET header == Head(file.lines)
             rows == Tail(file.lines)
         IN IF \E r \in 1..Len(rows) : Len(rows[r]) > Len(header)
            THEN [ok |-> FALSE, exc |-> "IndexError"]
            ELSE [ok |-> TRUE,
                  entries |-> [r \in 1..Len(rows) |-> Entry(header, rows[r])]]

\* str.split(',') instead: the blank stays on the next address
RECURSIVE SplitCommaFrom(_, _, _)
SplitCommaFrom(cell, k, cur) ==
    IF k > Len(cell) THEN <<cur>>
    ELSE IF cell[k] = ","
         THEN <<cur>> \o SplitCommaFrom(cell, k + 1, <<>>)
         ELSE SplitCommaFrom(cell, k + 1, Append(cur, cell[k]))
SplitMut(cell) == SplitCommaFrom(cell, 1, <<>>)

\* str.split(', ') on a cell
RECURSIVE SplitFrom(_, _, _)
SplitFrom(cell, k, cur) ==
    IF k > Len(cell) THEN <<cur>>
    ELSE IF k < Len(cell) /\ cell[k] = "," /\ cell[k + 1] = " "
         THEN <<cur>> \o SplitFrom(cell, k + 2, <<>>)
         ELSE SplitFrom(cell, k + 1, Append(cur, cell[k]))
Split(cell) == SplitFrom(cell, 1, <<>>)

(* ------------------------------ state ---------------------------------- *)
\* A thread is a record: args and sample (its status and the sample it was
\* started at), pc, stack (the nested handle_event frames), info and i (the
\* locals of the running frame), exc and line (the exception that ended
\* it), and what it has done so far: log (records handed to my_logger),
\* calls (the argument tuples send_mail was called with), smtp (the
\* sendmail calls and their outcome), fails (its load failures).
VARIABLES
    mpc,        \* position of monitor(): "start" (line 325) or "loop" (332)
    a,          \* monitor's remembered level
    samples,    \* history: the levels GPIO.input returned, in order
    threads     \* the handle_event threads started so far, in start order

vars == <<mpc, a, samples, threads>>

(* ---------------------------- monitor() -------------------------------- *)
\* Thread(target=handle_event, args=(status,)).start() at sample number k
NewThread(status, k) ==
    [args |-> status,
     sample |-> k,
     pc |-> "handle_event",
     stack |-> <<[status |-> status, failed |-> FALSE]>>,
     info |-> <<>>,
     i |-> 0,
     fails |-> 0,
     exc |-> "",
     line |-> 0,
     log |-> <<>>,
     calls |-> <<>>,
     smtp |-> <<>>]

\* line 326: the startup test; the thread started there gets args=(1,)
InitialDispatchMut(lvl) == <<>>
InitialDispatch(lvl) == IF lvl = 1 THEN <<1>> ELSE <<>>

\* line 334
ChangedMut(x, y) == y = 1
Changed(x, y) == x # y

\* lines 325-331
monitor_start ==
    /\ mpc = "start"
    /\ \E lvl \in Levels :
         /\ a' = lvl
         /\ samples' = <<lvl>>
         /\ threads' = IF InitialDispatch(lvl) = <<>>
                       THEN threads
                       ELSE Append(threads, NewThread(InitialDispatch(lvl)[1], 1))
    /\ mpc' = "loop"

\* a thread whose handle_event has returned or died
Ended(t) == t.pc \in {"returned", "raised"}

\* lines 336-340: the threads the loop waits for before it samples again.
\* Thread.start() returns at once and nothing joins the thread: none.
JoinedThreadsMut == {h \in 1..Len(threads) : TRUE}
JoinedThreads == {h \in 1..Len(threads) : FALSE}

\* lines 332-340: one iteration of the while loop
\* the level read is not remembered (line 339 left out)
monitor_loopMut ==
    /\ mpc = "loop"
    /\ Len(samples) < MaxSamples
    /\ \E b \in Levels :
         /\ threads' = IF Changed(a, b)
                       THEN Append(threads, NewThread(b, Len(samples) + 1))
                       ELSE threads
         /\ samples' = Append(samples, b)
    /\ UNCHANGED <<mpc, a>>
monitor_loop ==
    /\ mpc = "loop"
    /\ Len(samples) < MaxSamples
    /\ \A h \in JoinedThreads : Ended(threads[h])
    /\ \E b \in Levels :
         /\ threads' = IF Changed(a, b)
                       THEN Append(threads, NewThread(b, Len(samples) + 1))
                       ELSE threads
         /\ a' = b
         /\ samples' = Append(samples, b)
    /\ mpc' = mpc

(* ------------------------- handler threads ----------------------------- *)
Top(t) == t.stack[Len(t.stack)]
Logged(t, rec) == [t EXCEPT !.log = Append(@, rec)]
\* an exception nobody catches ends the thread (see the reading notes)
\* line is the source line the exception is raised at
Raise(t, e, line) == [t EXCEPT !.pc = "raised", !.exc = e, !.line = line]

Started(h) == threads[h].log # <<>>
\* the scheduling bound: at most MaxRunning threads ever get to run
MaySchedule(h) ==
    \/ Started(h)
    \/ Cardinality({g \in 1..Len(threads) : Started(g)}) < MaxRunning

RECURSIVE SumFails(_)
SumFails(k) == IF k = 0 THEN 0 ELSE threads[k].fails + SumFails(k - 1)
\* the load-failure bound
MayFail == SumFails(Len(threads)) < MaxLoadFailures

Step(h, t) ==
    /\ threads' = [threads EXCEPT ![h] = t]
    /\ UNCHANGED <<mpc, a, samples>>

\* lines 253-261: timestamp, then the host address; ifaddresses('eth0')[2]
\* raises when the interface or its IPv4 address is absent
\* the failure of line 257 swallowed: the handler carries on
handle_event_bodyMut(h) ==
    /\ threads[h].pc = "handle_event"
    /\ Step(h, [Logged(threads[h], <<"info", "Freezer event detected">>)
                   EXCEPT !.pc = "parse"])
handle_event_body(h) ==
    /\ threads[h].pc = "handle_event"
    /\ LET t == Logged(threads[h], <<"info", "Freezer event detected">>)
       IN \E resolved \in BOOLEAN :
            IF resolved
            THEN Step(h, [Logged(t, <<"debug", "Detected local IP address", HostIP>>)
                            EXCEPT !.pc = "parse"])
            ELSE Step(h, Raise(t, "KeyError", 257))

handle_event_entry(h) == MaySchedule(h) /\ handle_event_body(h)

\* line 222 / line 226: the status handed to the re-invoked handle_event
RetryStatusMut(status) == 1
RetryStatus(status) == status

\* lines 201-225, up to the sleep.  Line 216 evaluates the name string
\* before anything is sent; accepted is the transport's answer at line 219.
handle_csv_error(t, accepted) ==
    LET t1 == Logged(t, <<"critical", "!!! Failed to read CSV File !!!">>)
        t2 == IF NameDefined("string")
              THEN [t1 EXCEPT !.smtp = Append(@, [to |-> CSV_ERROR_ADDRESSES.to,
                                                  tier |-> "CSV",
                                                  ok |-> accepted])]
              ELSE t1
        t3 == IF NameDefined("string") /\ accepted /\ NameDefined("recipeints")
              THEN Logged(t2, <<"info", "Sent warning to", CSV_ERROR_ADDRESSES.to>>)
              ELSE \* the except clause of line 223
                   Logged(t2, <<"critical",
                                "!!! Failed to read CSV File and failed to alert",
                                CSV_ERROR_ADDRESSES.to>>)
    IN [t3 EXCEPT !.pc = "sleep900"]

\* lines 263-269: one pass of the while loop
parse_csv(h) ==
    /\ threads[h].pc = "parse"
    /\ \E file \in CsvFiles :
         LET t == threads[h]
             r == parse_info(file)
         IN IF r.ok
            THEN Step(h, [Logged(t, <<"debug", "Finished parsing CSV file">>)
                            EXCEPT !.info = r.entries, !.i = 1, !.pc = "scan"])
            ELSE /\ MayFail
                 /\ \E accepted \in BOOLEAN :
                      Step(h, handle_csv_error(
                                [t EXCEPT !.fails = @ + 1,
                                          !.stack[Len(t.stack)].failed = TRUE],
                                accepted))

\* lines 225-226: the sleep ends and handle_event(status) is called
\* re-invoked with the level the loop remembers now, not the thread's own
csv_retryMut(h) ==
    /\ threads[h].pc = "sleep900"
    /\ LET t == threads[h]
       IN Step(h, [t EXCEPT !.stack = Append(@, [status |-> a, failed |-> FALSE]),
                            !.pc = "handle_event"])
csv_retry(h) ==
    /\ threads[h].pc = "sleep900"
    /\ LET t == threads[h]
       IN Step(h, [t EXCEPT !.stack = Append(@, [status |-> RetryStatus(Top(t).status),
                                                 failed |-> FALSE]),
                            !.pc = "handle_event"])

\* the return of handle_event (line 279 falls off the for loop): the
\* thread ends, or line 226 returns into handle_csv_error, which returns
\* into the while loop of the calling handle_event (line 263)
Return(t) ==
    IF Len(t.stack) = 1
    THEN [t EXCEPT !.pc = "returned", !.info = <<>>, !.i = 0]
    ELSE [t EXCEPT !.stack = SubSeq(@, 1, Len(@) - 1),
                   !.pc = "parse", !.info = <<>>, !.i = 0]

\* the keys lines 273-278 read, in the order they are read
RowKeys ==
    <<"Email", "Location", "Department", "From Email", "Reply-To Email",
      "Backup Email">>

\* lines 273-279: the arguments of send_mail for a matching row
SendArgs(status, row) ==
    [status |-> status,
     recipients |-> Split(row["Email"]),
     sender |-> row["From Email"],
     reply_to |-> row["Reply-To Email"],
     backup |-> Split(row["Backup Email"]),
     location |-> row["Location"]]

\* lines 271-278 from row k on: the next row whose IP is the host's
ScanFromMut(info, k) ==
    IF k > Len(info) THEN [kind |-> "end", at |-> k, line |-> 271]
    ELSE [kind |-> "send", at |-> k, line |-> 279]
RECURSIVE ScanFrom(_, _)
ScanFrom(info, k) ==
    IF k > Len(info) THEN [kind |-> "end", at |-> k, line |-> 271]
    ELSE IF "IP" \notin DOMAIN info[k]
         THEN [kind |-> "KeyError", at |-> k, line |-> 272]
    ELSE IF info[k]["IP"] # Str(HostIP) THEN ScanFrom(info, k + 1)
    ELSE IF \E j \in 1..Len(RowKeys) : RowKeys[j] \notin DOMAIN info[k]
         THEN [kind |-> "KeyError", at |-> k,
               line |-> 272 + (CHOOSE j \in 1..Len(RowKeys) :
                                  /\ RowKeys[j] \notin DOMAIN info[k]
                                  /\ \A m \in 1..(j - 1) : RowKeys[m] \in DOMAIN info[k])]
         ELSE [kind |-> "send", at |-> k, line |-> 279]

\* the send_mail call a thread is inside of
Call(t) == SendArgs(Top(t).status, t.info[t.i])

\* lines 271-279 up to the call of send_mail, then lines 133-147
scan(h) ==
    /\ threads[h].pc = "scan"
    /\ LET t == threads[h]
           r == ScanFrom(t.info, t.i)
       IN CASE r.kind = "end" -> Step(h, Return(t))
            [] r.kind = "KeyError" -> Step(h, Raise([t EXCEPT !.i = r.at], "KeyError", r.line))
            [] r.kind = "send" ->
                 Step(h, [Logged([t EXCEPT !.i = r.at],
                                 <<"debug", "Attempting to send mail to",
                                   SendArgs(Top(t).status, t.info[r.at]).recipients>>)
                            EXCEPT !.pc = "smtp_connect",
                                   !.calls = Append(@, SendArgs(Top(t).status,
                                                                t.info[r.at]))])

\* line 149: smtplib.SMTP(SMTP_SERVER) connects, outside any try
\* a failed connection passed over: the for loop goes on to the next row
smtp_connectMut(h) ==
    /\ threads[h].pc = "smtp_connect"
    /\ \E connected \in BOOLEAN :
         IF connected
         THEN Step(h, [threads[h] EXCEPT !.pc = "sendmail"])
         ELSE Step(h, [threads[h] EXCEPT !.pc = "scan", !.i = @ + 1])
smtp_connect(h) ==
    /\ threads[h].pc = "smtp_connect"
    /\ \E connected \in BOOLEAN :
         IF connected
         THEN Step(h, [threads[h] EXCEPT !.pc = "sendmail"])
         ELSE Step(h, Raise(threads[h], "socket.error", 149))

\* a lock on the transport: a thread sends after every earlier one is done
sendmailMut(h) ==
    /\ threads[h].pc = "sendmail"
    /\ \A g \in 1..(h - 1) : threads[g].pc \in {"returned", "raised"}
    /\ \E accepted \in BOOLEAN :
         LET t == threads[h]
             c == Call(t)
             t1 == [t EXCEPT !.smtp = Append(@, [to |-> c.recipients,
                                                 tier |-> "PRIMARY",
                                                 ok |-> accepted])]
         IN IF accepted
            THEN Step(h, [Logged(t1, <<"info", "Sent mail to", c.recipients>>)
                            EXCEPT !.pc = "scan", !.i = @ + 1])
            ELSE /\ ~NameDefined("msg_type")
                 /\ Step(h, Raise(t1, "NameError", 154))
\* lines 150-154.  On success send_mail returns into the for loop.  On
\* failure line 154 evaluates msg_type while building the warning text:
\* NameError inside the except clause, so nothing is logged and lines
\* 155-174 (the backup message, the sleep and the retry) are not reached.
sendmail(h) ==
    /\ threads[h].pc = "sendmail"
    /\ \E accepted \in BOOLEAN :
         LET t == threads[h]
             c == Call(t)
             t1 == [t EXCEPT !.smtp = Append(@, [to |-> c.recipients,
                                                 tier |-> "PRIMARY",
                                                 ok |-> accepted])]
         IN IF accepted
            THEN Step(h, [Logged(t1, <<"info", "Sent mail to", c.recipients>>)
                            EXCEPT !.pc = "scan", !.i = @ + 1])
            ELSE /\ ~NameDefined("msg_type")
                 /\ Step(h, Raise(t1, "NameError", 154))

handler(h) ==
    \/ handle_event_entry(h)
    \/ parse_csv(h)
    \/ csv_retry(h)
    \/ scan(h)
    \/ smtp_connect(h)
    \/ sendmail(h)

Running == 1..Len(threads)

Init ==
    /\ mpc = "start"
    /\ a = LOW
    /\ samples = <<>>
    /\ threads = <<>>

Next ==
    \/ monitor_start
    \/ monitor_loop
    \/ \E h \in Running : handle_event_entry(h)
    \/ \E h \in Running : parse_csv(h)
    \/ \E h \in Running : csv_retry(h)
    \/ \E h \in Running : scan(h)
    \/ \E h \in Running : smtp_connect(h)
    \/ \E h \in Running : sendmail(h)

Spec == Init /\ [][Next]_vars

(***************************************************************************)
(* The handler threads on their own.  A thread reads and writes nothing    *)
(* the monitor or another thread writes, so its behaviour is the same      *)
(* whatever the monitor does next.  HandlerSpec starts after the monitor   *)
(* has read HIGH at startup and LOW in its first iteration, with one       *)
(* thread of each status started, and lets only the threads move; it is    *)
(* the specification for properties of a thread's progress.  The threads   *)
(* are daemon threads the interpreter keeps scheduling, and time.sleep     *)
(* returns: weak fairness of each thread's next step.                      *)
(***************************************************************************)
HandlerInit ==
    /\ mpc = "loop"
    /\ a = LOW
    /\ samples = <<HIGH, LOW>>
    /\ threads = <<NewThread(1, 1), NewThread(LOW, 2)>>

HandlerNext ==
    \/ \E h \in Running : handle_event_entry(h)
    \/ \E h \in Running : parse_csv(h)
    \/ \E h \in Running : csv_retry(h)
    \/ \E h \in Running : scan(h)
    \/ \E h \in Running : smtp_connect(h)
    \/ \E h \in Running : sendmail(h)

HandlerSpec ==
    /\ HandlerInit
    /\ [][HandlerNext]_vars
    /\ \A h \in 1..2 : WF_vars(handler(h))

(***************************************************************************)
(* Two threads at work.  PairSpec starts where HandlerSpec does, keeps     *)
(* the monitor sampling, and lets any two of the threads run, so that      *)
(* threads overlap with each other and with the loop.                      *)
(***************************************************************************)
PairSchedule(h) ==
    \/ Started(h)
    \/ Cardinality({g \in 1..Len(threads) : Started(g)}) < 2

PairNext ==
    \/ monitor_loop
    \/ \E h \in Running : PairSchedule(h) /\ handle_event_body(h)
    \/ \E h \in Running : parse_csv(h)
    \/ \E h \in Running : csv_retry(h)
    \/ \E h \in Running : scan(h)
    \/ \E h \in Running : smtp_connect(h)
    \/ \E h \in Running : sendmail(h)

PairSpec == HandlerInit /\ [][PairNext]_vars

(***************************************************************************)
(* Address lists.  SplitSpec starts with a thread that has just parsed a   *)
(* one-row directory for this host whose Email and Backup Email cells      *)
(* list any addresses of AddressLists, joined the way the docstring        *)
(* (lines 17-18) prescribes, and lets it run.  Here an address is spelt    *)
(* out in characters.                                                      *)
(***************************************************************************)
Addresses == {<<"a", "@", "x">>, <<"b", "@", "y">>}
AddressLists == UNION {[1..n -> Addresses] : n \in 1..MaxAddresses}

\* "a@x, b@y": the addresses in order with comma-space between them
RECURSIVE Join(_)
Join(list) ==
    IF Len(list) = 1 THEN list[1]
    ELSE list[1] \o <<",", " ">> \o Join(Tail(list))

RowFor(emails, backups) ==
    <<Str(HostIP), Str("BLDG 456"), Join(emails), Join(backups),
      Str("help@x.edu"), Str("fm@x.edu"), Str("Biochemistry")>>

SplitInit ==
    /\ mpc = "loop"
    /\ a = HIGH
    /\ samples = <<HIGH>>
    /\ \E emails \in AddressLists, backups \in AddressLists :
         threads =
           <<[Logged(Logged(Logged(NewThread(1, 1),
                                   <<"info", "Freezer event detected">>),
                            <<"debug", "Detected local IP address", HostIP>>),
                     <<"debug", "Finished parsing CSV file">>)
                EXCEPT !.info = parse_info(File(<<Header7,
                                                  RowFor(emails, backups)>>)).entries,
                       !.i = 1,
                       !.pc = "scan"]>>

SplitNext ==
    \/ \E h \in Running : scan(h)
    \/ \E h \in Running : smtp_connect(h)
    \/ \E h \in Running : sendmail(h)

SplitSpec == SplitInit /\ [][SplitNext]_vars

(* ------------------------------ properties ----------------------------- *)
\* the threads started at sample number k
EventsAt(k) == {h \in 1..Len(threads) : threads[h].sample = k}

\* how many elements of seq satisfy P
CountIf(seq, P(_)) == Cardinality({k \in 1..Len(seq) : P(seq[k])})

FailedPrimary(c) == c.tier = "PRIMARY" /\ ~c.ok
IsFailureRecord(rec) == rec[1] = "warning" /\ rec[2] = "Failed to send"

\* C1: for every sample after the initial read, a thread is started at that
\* sample exactly when its level differs from the preceding sample's, there
\* is one such thread, and it is handed the new level.
C1_DispatchIffChanged ==
    \A k \in 2..Len(samples) :
        /\ (EventsAt(k) # {}) <=> (samples[k] # samples[k - 1])
        /\ Cardinality(EventsAt(k)) <= 1
        /\ \A h \in EventsAt(k) : threads[h].args = samples[k]

\* scenario A: LOW, LOW, HIGH gives one thread with status 1 at sample 3
C1_Witness ==
    /\ samples = <<LOW, LOW, HIGH>>
    /\ Len(threads) = 1
    /\ threads[1].sample = 3
    /\ threads[1].args = 1

\* C2: once the loop is entered, the startup read has started exactly one
\* thread, with status 1 and ahead of every other thread, if it read HIGH,
\* and none if it read LOW.
C2_StartupDispatch ==
    mpc = "loop" =>
        IF samples[1] = HIGH
        THEN /\ EventsAt(1) = {1}
             /\ threads[1].args = 1
             /\ (Len(samples) = 1 => Len(threads) = 1)
        ELSE /\ EventsAt(1) = {}
             /\ (Len(samples) = 1 => Len(threads) = 0)

C2_Witness ==
    /\ mpc = "loop"
    /\ Len(samples) = 1
    /\ samples[1] = HIGH
    /\ Len(threads) = 1

\* C3: every failed PRIMARY attempt is followed by a BACKUP attempt, the
\* next call the thread makes to the transport, before the thread is done.
C3_BackupAfterPrimaryFailure ==
    \A h \in 1..Len(threads) :
        LET t == threads[h]
        IN \A k \in 1..Len(t.smtp) :
             FailedPrimary(t.smtp[k]) /\ (Ended(t) \/ k < Len(t.smtp)) =>
                 /\ k < Len(t.smtp)
                 /\ t.smtp[k + 1].tier = "BACKUP"

\* C4: send_mail keeps being re-invoked for as long as its attempts fail:
\* a thread is never done while the last answer of the transport to it
\* was a failure.
C4_RetryWhileFailing ==
    \A h \in 1..Len(threads) :
        LET t == threads[h]
        IN Len(t.smtp) > 0 /\ ~t.smtp[Len(t.smtp)].ok => ~Ended(t)

\* C5: a thread waiting in handle_csv_error has attempted one message to
\* CSV_ERROR_ADDRESSES['to'] for each of its load failures.
C5_FallbackSentBeforeWait ==
    \A h \in 1..Len(threads) :
        LET t == threads[h]
            ToOps(c) == c.tier = "CSV" /\ c.to = CSV_ERROR_ADDRESSES.to
        IN t.pc = "sleep900" => CountIf(t.smtp, ToOps) = t.fails

\* C6: a handle_event whose load failed is always followed, after the
\* sleep, by a new handle_event with the status of the one that failed.
C6_RetriesWithSameStatus ==
    \A h \in 1..MaxSamples :
        (h \in Running /\ threads[h].pc = "sleep900")
        ~> (/\ h \in Running
            /\ threads[h].pc = "handle_event"
            /\ LET stack == threads[h].stack
                   d == Len(stack) - 1
               IN /\ d >= 1
                  /\ stack[d].failed
                  /\ stack[d + 1].status = stack[d].status
                  /\ stack[d + 1].status = threads[h].args)

C6_Witness ==
    \E h \in 1..Len(threads) :
        /\ threads[h].pc = "handle_event"
        /\ Len(threads[h].stack) = 2
        /\ threads[h].stack[1].failed
        /\ threads[h].stack[2].status = threads[h].args

\* C7: a thread that was sending for a matching row of the directory it
\* loaded never ends without a successful delivery for that row.
C7_NoAlertDropped ==
    \A h \in 1..Len(threads) :
        LET t == threads[h]
        IN (/\ t.pc = "raised"
            /\ t.i \in 1..Len(t.info)
            /\ ScanFrom(t.info, t.i).kind = "send"
            /\ ScanFrom(t.info, t.i).at = t.i)
           => \E k \in 1..Len(t.smtp) :
                 t.smtp[k].ok /\ t.smtp[k].to \in {Call(t).recipients, Call(t).backup}

\* C8: no BACKUP attempt follows a successful PRIMARY one, and a thread
\* that is done has logged one PRIMARY failure record for each failed
\* PRIMARY attempt, each of them followed by a BACKUP success.
C8_EndsAtFirstSuccess ==
    \A h \in 1..Len(threads) :
        LET t == threads[h]
        IN /\ \A k \in 1..(Len(t.smtp) - 1) :
                t.smtp[k].tier = "PRIMARY" /\ t.smtp[k].ok =>
                    t.smtp[k + 1].tier # "BACKUP"
           /\ Ended(t) =>
                CountIf(t.log, IsFailureRecord) = CountIf(t.smtp, FailedPrimary)

\* C9: no exception leaves send_mail (lines 133-174).
C9_NoErrorLeavesSendMail ==
    \A h \in 1..Len(threads) :
        threads[h].pc = "raised" => threads[h].line \notin 133..174

\* C10: a handle_event whose load failed neither parses again nor sends.
C10_FailedInvocationReturns ==
    \A h \in 1..Len(threads) :
        Top(threads[h]).failed =>
            threads[h].pc \notin {"parse", "scan", "smtp_connect", "sendmail"}

\* C11: whatever the threads are doing, the loop can take its next sample
\* (and start a thread there), and a thread that has not begun can begin.
C11_LoopNeverBlocked ==
    /\ (mpc = "loop" /\ Len(samples) < MaxSamples) => ENABLED monitor_loop
    /\ \A h \in 1..Len(threads) :
         threads[h].pc = "handle_event" => ENABLED handle_event_body(h)

\* thread 1 sleeps in handle_csv_error; the loop has sampled again and
\* the thread it started there has begun
C11_Witness ==
    /\ Len(threads) = 3
    /\ threads[1].pc = "sleep900"
    /\ threads[3].sample = 3
    /\ threads[3].pc \in {"parse", "smtp_connect", "sendmail"}

\* the rows of a parsed directory whose IP is the host's
Matching(info) ==
    {k \in 1..Len(info) : "IP" \in DOMAIN info[k] /\ info[k]["IP"] = Str(HostIP)}
\* the thread is through with the directory it parsed: the for loop of
\* line 271 is exhausted, or an exception ended the thread inside it
LoopOver(t) ==
    /\ t.info # <<>>
    /\ \/ t.pc = "raised"
       \/ t.pc = "scan" /\ ScanFrom(t.info, t.i).kind = "end"

\* C12: once a thread is through with a directory it parsed, send_mail has
\* been called for every matching row, with that row's own recipients,
\* sender, reply-to, backup list and location.
C12_EveryMatchNotified ==
    \A h \in 1..Len(threads) :
        LET t == threads[h]
        IN LoopOver(t) =>
             \A k \in Matching(t.info) :
                 /\ RowKeys[1] \in DOMAIN t.info[k]
                 /\ \E c \in 1..Len(t.calls) :
                       /\ t.calls[c].recipients = Split(t.info[k]["Email"])
                       /\ t.calls[c].backup = Split(t.info[k]["Backup Email"])
                       /\ t.calls[c].sender = t.info[k]["From Email"]
                       /\ t.calls[c].reply_to = t.info[k]["Reply-To Email"]
                       /\ t.calls[c].location = t.info[k]["Location"]

\* every row carries an IP and none is the host's
NoMatch(info) ==
    \A k \in 1..Len(info) : "IP" \in DOMAIN info[k] /\ info[k]["IP"] # Str(HostIP)
\* thread h takes its step out of the for loop of a directory without match
NoMatchStep(h) ==
    /\ h \in 1..Len(threads)
    /\ threads[h].pc = "scan"
    /\ threads[h].i = 1
    /\ NoMatch(threads[h].info)
    /\ threads'[h] # threads[h]
IsNoMatchRecord(rec) == rec[2] = "no matching entry"

LastRecord(t) == t.log[Len(t.log)]
\* what holds around a thread that died resolving the host address: it
\* takes no further step (no send, no retry), the loop can sample, every
\* change sampled so far has got its thread, and a thread that has not
\* begun can begin
DiesAlone(h) ==
    /\ ~ENABLED handler(h)
    /\ ~ENABLED handle_event_body(h)
    /\ (mpc = "loop" /\ Len(samples) < MaxSamples) => ENABLED monitor_loop
    /\ \A k \in 2..Len(samples) :
         samples[k] # samples[k - 1] => EventsAt(k) # {}
    /\ \A g \in 1..Len(threads) :
         threads[g].pc = "handle_event" /\ Len(threads[g].stack) = 1
             => ENABLED handle_event_body(g)

RequiredFields == {Header6[j] : j \in 1..Len(Header6)}

\* C15: a directory a handler got out of parse_info has the six required
\* fields in every row, and no handler dies of a missing field while it
\* goes through the rows (lines 272-278).
C15_MalformedRowFailsLoad ==
    \A h \in 1..Len(threads) :
        LET t == threads[h]
        IN /\ \A k \in 1..Len(t.info) : RequiredFields \subseteq DOMAIN t.info[k]
           /\ t.pc = "raised" => t.line \notin 272..278

\* the send_mail call thread t is inside of was made for row t.i
InSendMail(t) == t.pc \in {"smtp_connect", "sendmail"}

\* C16: when the Email (Backup Email) cell of the row being sent is a list
\* of addresses joined by comma-space, send_mail was called with exactly
\* that list as recipients (backup): same addresses, same order, no blank.
C16_RecipientsSplit ==
    \A h \in 1..Len(threads) :
        LET t == threads[h]
            c == t.calls[Len(t.calls)]
        IN InSendMail(t) =>
             \A list \in AddressLists :
                 /\ t.info[t.i]["Email"] = Join(list) => c.recipients = list
                 /\ t.info[t.i]["Backup Email"] = Join(list) => c.backup = list

\* send_mail is being called with two recipients and two backup addresses
C16_Witness ==
    \E h \in 1..Len(threads) :
        /\ threads[h].pc = "sendmail"
        /\ threads[h].info[1]["Email"] = <<"a", "@", "x", ",", " ", "b", "@", "y">>
        /\ threads[h].calls[1].recipients = <<(<<"a", "@", "x">>), (<<"b", "@", "y">>)>>
        /\ Len(threads[h].calls[1].backup) = 2

\* the thread has delivered a message of its status
Delivered(t) == \E k \in 1..Len(t.smtp) : t.smtp[k].tier = "PRIMARY" /\ t.smtp[k].ok

C18_DispatchOrderNoLock ==
    /\ \A g, h \in 1..Len(threads) :
           g < h => threads[g].sample < threads[h].sample
    /\ \A h \in 1..Len(threads) :
           /\ threads[h].pc = "smtp_connect" => ENABLED smtp_connect(h)
           /\ threads[h].pc = "sendmail" => ENABLED sendmail(h)

\* the CLEAR of the second transition is delivered while the ALERT of the
\* first is still on its way to the transport
C18_Witness ==
    /\ Len(threads) >= 2
    /\ threads[1].args = 1 /\ threads[2].args = 0
    /\ threads[1].sample < threads[2].sample
    /\ Delivered(threads[2])
    /\ ~Delivered(threads[1])
    /\ threads[1].pc = "sendmail"

\* C19: the statuses the threads were started with alternate and begin
\* with 1, and the level the loop remembers is the status of the thread
\* started last (LOW while none has been started).
C19_StatusesAlternate ==
    /\ threads # <<>> => threads[1].args = 1
    /\ \A k \in 1..(Len(threads) - 1) : threads[k].args # threads[k + 1].args
    /\ a = IF threads = <<>> THEN LOW ELSE threads[Len(threads)].args

\* ALERT, CLEAR, ALERT have been dispatched and the loop remembers HIGH
C19_Witness ==
    /\ Len(threads) = 3
    /\ threads[1].args = 1 /\ threads[2].args = 0 /\ threads[3].args = 1
    /\ a = HIGH

\* the matching rows the for loop of line 271 has passed
Passed(t) == {k \in Matching(t.info) : k < t.i}
\* the thread is inside send_mail for row t.i, or died there
AtSend(t) ==
    \/ InSendMail(t)
    \/ t.pc = "raised" /\ t.line \in {149, 154}
Primary(t) == SelectSeq(t.smtp, LAMBDA c : c.tier = "PRIMARY")

\* C20: the matching rows are notified one after the other in directory
\* order.  Whenever a thread is in the for loop of line 271, the send_mail
\* calls of this pass are those for the matching rows passed, in their
\* order, then the one for the current row if the thread is in it; every
\* passed row's send had returned with the message accepted before the
\* next was started, so a row whose send has not returned holds back all
\* the rows after it.
C20_SequentialInOrder ==
    \A h \in 1..Len(threads) :
        LET t == threads[h]
            n == Cardinality(Passed(t))
            cur == IF AtSend(t) THEN 1 ELSE 0
            P == Primary(t)
            m == IF t.pc = "raised" /\ t.line = 154 THEN Len(P) - 1 ELSE Len(P)
            rank(k) == Cardinality({j \in Passed(t) : j <= k})
        IN (t.info # <<>> /\ t.pc \in {"scan", "smtp_connect", "sendmail", "raised"}) =>
             /\ Len(t.calls) >= n + cur
             /\ m >= n
             /\ \A k \in Passed(t) :
                    /\ t.calls[Len(t.calls) - cur - n + rank(k)]
                         = SendArgs(Top(t).status, t.info[k])
                    /\ P[m - n + rank(k)].ok
                    /\ P[m - n + rank(k)].to
                         = t.calls[Len(t.calls) - cur - n + rank(k)].recipients
             /\ cur = 1 => t.calls[Len(t.calls)] = SendArgs(Top(t).status, t.info[t.i])

\* the second matching row's send has started, after the first one's
\* message was accepted
C20_Witness ==
    \E h \in 1..Len(threads) :
        /\ threads[h].pc = "sendmail"
        /\ threads[h].i = 3
        /\ Passed(threads[h]) = {1}
        /\ Len(threads[h].calls) = 2
        /\ Primary(threads[h])[1].ok

=============================================================================
